---------------------------- MODULE Spec2Model ----------------------------
(***************************************************************************)
(* A model of quip_export.py: the export session (main), the recursive     *)
(* folder walk (process_folder), the document export (process_thread) and  *)
(* the attachment download (download_blob), over a small remote store and  *)
(* a local file system.                                                    *)
(*                                                                         *)
(* Strings the program takes apart (links, titles, file names) are         *)
(* sequences of one-character strings.  A path is a sequence of            *)
(* components below the directory that holds the output root; the output   *)
(* root itself is <<OutputName>>.                                          *)
(***************************************************************************)
EXTENDS Naturals, Sequences, FiniteSets, TLC

(***************************************************************************)
(* Bounds of the model.                                                    *)
(***************************************************************************)
\* How many calls of one run may answer with something else than success.
MaxFaults == 2
\* How many times the program is run into the same output root.
MaxRuns == 2
\* How deep process_folder may recurse before the interpreter refuses to go
\* deeper (its recursion limit, scaled down).
MaxDepth == 3

(***************************************************************************)
(* Strings.                                                                *)
(***************************************************************************)
Last(s) == s[Len(s)]

\* The characters of the class [\\/*?:"<>|] of line 14.
ReservedChars == {"\\", "/", "*", "?", ":", "\"", "<", ">", "|"}

\* A JSON string value and the JSON null, as the client hands them over.
Str(s) == [t |-> "str", v |-> s]
Null == [t |-> "null"]

\* dict.get(key, default)
Get(d, key, default) == IF key \in DOMAIN d THEN d[key] ELSE default

\* re.sub raises TypeError unless it is given a string.
sanitize_raises(filename) == filename.t # "str"

\* A class that leaves the separator out: [\\*?:"<>|].
sanitize_keep_slash(filename) ==
    SelectSeq(filename.v, LAMBDA c : c \notin (ReservedChars \ {"/"}))

sanitize_filename(filename) ==
    SelectSeq(filename.v, LAMBDA c : c \notin ReservedChars)

\* s.strip(ch)
RECURSIVE LStrip(_, _)
LStrip(s, ch) == IF s # <<>> /\ Head(s) = ch THEN LStrip(Tail(s), ch) ELSE s

RECURSIVE RStrip(_, _)
RStrip(s, ch) ==
    IF s # <<>> /\ Last(s) = ch THEN RStrip(SubSeq(s, 1, Len(s) - 1), ch) ELSE s

\* s.lstrip(ch) in the place of s.strip(ch).
strip_left_only(s, ch) == LStrip(s, ch)
Strip(s, ch) == RStrip(LStrip(s, ch), ch)

\* The least index of s that holds a character of set, or 0.
FindAny(s, set) ==
    IF \E i \in 1..Len(s) : s[i] \in set
    THEN CHOOSE i \in 1..Len(s) :
            /\ s[i] \in set
            /\ \A j \in 1..(i - 1) : s[j] \notin set
    ELSE 0

\* The greatest index of s that holds ch, or 0.
RFind(s, ch) ==
    IF \E i \in 1..Len(s) : s[i] = ch
    THEN CHOOSE i \in 1..Len(s) :
            /\ s[i] = ch
            /\ \A j \in (i + 1)..Len(s) : s[j] # ch
    ELSE 0

\* s.split(ch): never an empty list.
RECURSIVE Split(_, _)
Split(s, ch) ==
    LET i == FindAny(s, {ch})
    IN  IF i = 0 THEN <<s>>
        ELSE <<SubSeq(s, 1, i - 1)>> \o Split(SubSeq(s, i + 1, Len(s)), ch)

From(s, i) == SubSeq(s, i, Len(s))

\* The letters a scheme is written with in the links of the model.
SchemeChars == {"h", "t", "p", "s"}

\* urllib.parse.uses_params, as far as the links of the model go.
uses_params == {<<>>, <<"h", "t", "t", "p">>, <<"h", "t", "t", "p", "s">>}

\* urllib.parse.urlparse: scheme, netloc, path (params, query and fragment
\* cut off).
urlparse(link) ==
    LET c  == FindAny(link, {":"})
        hasScheme == /\ c > 1
                     /\ \A j \in 1..(c - 1) : link[j] \in SchemeChars
        r1 == IF hasScheme THEN From(link, c + 1) ELSE link
        hasNet == Len(r1) >= 2 /\ r1[1] = "/" /\ r1[2] = "/"
        r2 == IF hasNet THEN From(r1, 3) ELSE r1
        n  == FindAny(r2, {"/", "?", "#"})
        netloc == IF ~hasNet THEN <<>>
                  ELSE IF n = 0 THEN r2 ELSE SubSeq(r2, 1, n - 1)
        r3 == IF ~hasNet THEN r2 ELSE IF n = 0 THEN <<>> ELSE From(r2, n)
        f  == FindAny(r3, {"#"})
        r4 == IF f = 0 THEN r3 ELSE SubSeq(r3, 1, f - 1)
        q  == FindAny(r4, {"?"})
        r5 == IF q = 0 THEN r4 ELSE SubSeq(r4, 1, q - 1)
        scheme == IF hasScheme THEN SubSeq(link, 1, c - 1) ELSE <<>>
        sl == RFind(r5, "/")
        sc == FindAny(From(r5, sl + 1), {";"})
        r6 == IF sc = 0 \/ scheme \notin uses_params
              THEN r5 ELSE SubSeq(r5, 1, sl + sc - 1)
    IN  [scheme |-> scheme,
         netloc |-> netloc,
         path   |-> r6,
         fragment |-> IF f = 0 THEN <<>> ELSE From(r3, f + 1)]

\* The entity id of a link; None is never returned (split gives a part).
extract_id_from_link(link) ==
    LET path  == Strip(urlparse(link).path, "/")
        parts == Split(path, "/")
        potential_id == Last(parts)
    IN  Split(potential_id, "#")[1]

get_domain_from_link(link) == urlparse(link).netloc

\* `if not folder_id` of line 226.
id_is_none(folder_id) == FALSE
IdMissing(folder_id) == folder_id = <<>>

(***************************************************************************)
(* The remote store: what get_folder and get_thread answer for an id when  *)
(* the call succeeds.  Ids are one-character strings.                      *)
(***************************************************************************)
Unknown_Folder == <<"U", "n", "k", "n", "o", "w", "n", "_", "F", "o", "l", "d", "e", "r">>
Unknown_Document ==
    <<"U", "n", "k", "n", "o", "w", "n", "_", "D", "o", "c", "u", "m", "e", "n", "t">>
Unknown_Attachment ==
    <<"U", "n", "k", "n", "o", "w", "n", "_", "A", "t", "t", "a", "c", "h", "m", "e", "n", "t">>
DocxExt == <<".", "d", "o", "c", "x">>
HtmlExt == <<".", "h", "t", "m", "l">>
AttachmentsSuffix == <<"_", "a", "t", "t", "a", "c", "h", "m", "e", "n", "t", "s">>

\* "tree": folders with equal sanitized titles, a document with fallback
\* markup and two attachments, a document without title and markup, an entry
\* that is neither document nor folder, a folder without a children key.
TreeFolders ==
    [R |-> [folder |-> [title |-> Str(<<"r">>)],
            children |-> << [folder_id |-> "F"], [thread_id |-> "D"],
                            [other_id |-> "X"], [folder_id |-> "G"] >>],
     F |-> [folder |-> [title |-> Str(<<"a", "*">>)],
            children |-> << [thread_id |-> "E"] >>],
     G |-> [folder |-> [title |-> Str(<<"a">>)]]]

TreeThreads ==
    [D |-> [thread |-> [title |-> Str(<<"d", "?">>)],
            html |-> "html of D",
            blobs |-> << [url |-> "u1", name |-> Str(<<"x">>)],
                         [url |-> "u2", name |-> Str(<<"y", "/", "|">>)] >>],
     E |-> [thread |-> [id |-> "E"]]]

\* "clash": a root whose sanitized title is empty, two documents with equal
\* sanitized titles, an attachment without url, one whose sanitized name is
\* empty and one without name, empty fallback markup, a folder named like a document's export file,
\* a document whose title is null.
ClashFolders ==
    [R |-> [folder |-> [title |-> Str(<<"?">>)],
            children |-> << [thread_id |-> "D"], [thread_id |-> "E"],
                            [thread_id |-> "N"], [folder_id |-> "F"] >>],
     F |-> [folder |-> [title |-> Str(<<"d">> \o DocxExt)],
            children |-> << [thread_id |-> "D"] >>]]

ClashThreads ==
    [D |-> [thread |-> [title |-> Str(<<"d", "?">>)],
            html |-> "html of D",
            blobs |-> << [url |-> "u1", name |-> Str(<<"x">>)] >>],
     E |-> [thread |-> [title |-> Str(<<"d">>)],
            html |-> "",
            blobs |-> << [name |-> Str(<<"x">>)],
                         [url |-> "u3", name |-> Str(<<"<">>)],
                         [url |-> "u4"] >>],
     N |-> [thread |-> [title |-> Null], html |-> "html of N"]]

\* "pair": twice a folder with one sub-folder and one document; the outer
\* document lists an attachment, the inner one none.
PairFolders ==
    [R |-> [folder |-> [title |-> Str(<<"r">>)],
            children |-> << [folder_id |-> "F"], [thread_id |-> "D"] >>],
     F |-> [folder |-> [title |-> Str(<<"f">>)],
            children |-> << [thread_id |-> "E"], [folder_id |-> "G"] >>],
     G |-> [folder |-> [title |-> Str(<<"g">>)], children |-> <<>>]]

PairThreads ==
    [D |-> [thread |-> [title |-> Str(<<"d">>)],
            html |-> "html of D",
            blobs |-> << [url |-> "u1", name |-> Str(<<"x">>)] >>],
     E |-> [thread |-> [title |-> Str(<<"e">>)],
            html |-> "html of E"]]

\* "cycle": a folder that holds a document and itself.
CycleFolders ==
    [R |-> [folder |-> [title |-> Str(<<"r">>)],
            children |-> << [thread_id |-> "D"], [folder_id |-> "R"] >>]]

CycleThreads ==
    [D |-> [thread |-> [title |-> Str(<<"d">>)], html |-> "html of D"]]

Hierarchies == {"tree", "clash"}

RemoteFolders(h) ==
    CASE h = "tree" -> TreeFolders
      [] h = "clash" -> ClashFolders
      [] h = "pair" -> PairFolders
      [] OTHER -> CycleFolders
RemoteThreads(h) ==
    CASE h = "tree" -> TreeThreads
      [] h = "clash" -> ClashThreads
      [] h = "pair" -> PairThreads
      [] OTHER -> CycleThreads

\* The id the remote store knows a resolved entity id by.
RemoteId(folder_id) == IF Len(folder_id) = 1 THEN folder_id[1] ELSE "?"

ErrorPayload == [error |-> "not found"]

\* The links given with --folder.
Https == <<"h", "t", "t", "p", "s", ":", "/", "/", "q">>
Links ==
    { Https \o <<"/", "p", "/", "R", "#", "x">>,
      Https \o <<"/">>,
      Https }

\* The forms a link may be given in: the id followed by a fragment; empty
\* segments, closing separators and a fragment with a separator in it; a
\* query with a separator in it; no scheme and host; parameters after the
\* id; no path segment but a fragment; separators only; no path; a path
\* that ends in a segment the store has no folder for.
LinkForms ==
    { Https \o <<"/", "p", "/", "R", "#", "x">>,
      Https \o <<"/", "p", "/", "/", "R", "/", "/", "#", "x", "/", "y">>,
      Https \o <<"/", "R", "?", "a", "/", "b">>,
      <<"q", "/", "p", "/", "R">>,
      Https \o <<"/", "p", "/", "R", ";", "v">>,
      Https \o <<"/", "#", "R">>,
      Https \o <<"/", "/">>,
      Https,
      Https \o <<"/", "p", "/">> }

(***************************************************************************)
(* The local file system.  A path is a sequence of components; an empty    *)
(* component is what os.path.join leaves when it joins an empty name (a    *)
(* trailing separator).  dirs and files are keyed by normalised paths.     *)
(***************************************************************************)
OutputName == <<"o">>

Norm(p) == SelectSeq(p, LAMBDA c : c # <<>>)
Parent(p) == SubSeq(p, 1, Len(p) - 1)
TrailingSep(p) == p # <<>> /\ Last(p) = <<>>
Prefixes(p) == {SubSeq(p, 1, n) : n \in 0..Len(p)}

\* os.path.join(base, name), for a name without separator.
Join(base, name) == Append(base, name)

\* os.path.exists(p)
Exists(d, f, p) ==
    IF TrailingSep(p) THEN Norm(p) \in d
    ELSE Norm(p) \in d \/ Norm(p) \in DOMAIN f

\* os.makedirs(p) raises when a component of p is a file.
makedirs_raises(f, p) == \E q \in Prefixes(Norm(p)) : q \in DOMAIN f
makedirs_parents_only(d, p) == d \cup Prefixes(Parent(Norm(p)))
makedirs(d, p) == d \cup Prefixes(Norm(p))

\* open(p, 'w') raises on a directory, on a trailing separator and when the
\* parent is no directory.
open_raises(d, p) ==
    \/ TrailingSep(p)
    \/ Norm(p) \in d
    \/ Parent(Norm(p)) \notin d

\* The files after a write that renames instead of overwriting.
write_renaming(f, p, content) ==
    IF Norm(p) \in DOMAIN f
    THEN (Append(Norm(p), <<"1">>) :> content) @@ f
    ELSE (Norm(p) :> content) @@ f

\* The files after open(p, 'w') and write(content): the old content is gone.
write_file(f, p, content) == (Norm(p) :> content) @@ f

(***************************************************************************)
(* Exceptions and the handlers that stop them.                             *)
(***************************************************************************)
\* "Exception" is any exception below Exception; KeyboardInterrupt is none.
Exceptions == {"Exception", "KeyboardInterrupt"}

catches_everything(e) == TRUE
catches_nothing(e) == FALSE

\* `except Exception` of download_blob, line 58.
BlobCatches(e) == e = "Exception"
\* `except Exception` of process_thread, line 113.
ThreadCatches(e) == e = "Exception"
\* `except Exception` of process_folder, line 173.
FolderCatches(e) == e = "Exception"
\* The handlers of main, lines 240 and 242, in their order.
MainOutcome(e) ==
    IF e = "KeyboardInterrupt" THEN "interrupted"
    ELSE IF e = "Exception" THEN "failed"
    ELSE "uncaught"

\* The exit status main ends with: sys.exit(1) of lines 222 and 230, the
\* traceback of an exception outside the try, or the end of main.
ExitStatus(end) == IF end \in {"exit1", "uncaught"} THEN 1 ELSE 0

(***************************************************************************)
(* State.                                                                  *)
(***************************************************************************)
VARIABLES
    link,       \* args.folder_link
    hier,       \* which remote store the client talks to
    pc,         \* where main is, or how it ended
    folder_id,  \* main's folder_id, once extracted
    stack,      \* the active calls of process_folder, the innermost last
    thr,        \* the active call of process_thread, if any
    dirs,       \* the directories on disk
    files,      \* the files on disk with their content
    oracle,     \* how each call of the environment answered so far
    log,        \* the remote calls, writes and pauses of this run, in order
    sleeps,     \* how often time.sleep was called in this run
    runs,       \* how many runs were started
    firstRun,   \* the disk as the first completed run left it
    interrupted \* whether a KeyboardInterrupt reached this run's traversal

vars == <<link, hier, pc, folder_id, stack, thr, dirs, files, oracle, log,
          sleeps, runs, firstRun, interrupted>>

NoThread == [pc |-> "none"]
NoDisk == [dirs |-> {}, files |-> <<>>]

Top == stack[Len(stack)]
Pop(stk) == SubSeq(stk, 1, Len(stk) - 1)

\* One entry of the log: the operation, the node it belongs to (its place
\* in the hierarchy, as child indices from the root), the blob number, the
\* path it is about and how it ended.
Event(op, pos, n, path, res) ==
    [op |-> op, pos |-> pos, n |-> n, path |-> Norm(path), res |-> res]

\* How a fetch ended, for the log: an error payload is "error" also when it
\* is the store's answer for an id it does not know.
Answer(o, response) ==
    IF o = "ok" /\ "error" \in DOMAIN response THEN "error" ELSE o

\* What a call of the environment may answer.
Outcomes(kind) ==
    CASE kind \in {"get_folder", "get_thread"} -> {"ok", "error", "raise"}
      [] kind \in {"export", "blob_get"} -> {"ok", "status", "raise"}
      [] OTHER -> {"ok", "raise"}

FaultCount == Cardinality({s \in DOMAIN oracle : oracle[s] # "ok"})

\* The environment answers the call at `site` with o: as it did before if
\* the call was made before, else freely within the bound on faults.
Answers(site, o) ==
    /\ o \in Outcomes(site[2])
    /\ IF site \in DOMAIN oracle
       THEN o = oracle[site] /\ UNCHANGED oracle
       ELSE /\ o = "ok" \/ FaultCount < MaxFaults
            /\ oracle' = (site :> o) @@ oracle

\* A call of the remote side is known by the node it is made for, its kind
\* and the blob number; an operation of the local file system by its kind
\* and its path, so that the disk answers alike for one path.
Site(pos, kind, n) == <<pos, kind, n, <<>>>>
FsSite(kind, path) == <<<<>>, kind, 0, Norm(path)>>

Init ==
    /\ link \in Links
    /\ hier \in Hierarchies
    /\ pc = "client"
    /\ folder_id = <<>>
    /\ stack = <<>>
    /\ thr = NoThread
    /\ dirs = {<<>>}
    /\ files = <<>>
    /\ oracle = <<>>
    /\ log = <<>>
    /\ sleeps = 0
    /\ runs = 1
    /\ firstRun = NoDisk
    /\ interrupted = FALSE

(***************************************************************************)
(* Returning and raising.  Each formula gives stack' and pc' (and thr'     *)
(* where it names the thread).                                             *)
(***************************************************************************)
\* process_folder returns and the loop of its caller takes the next child
\* without a pause.
folder_returns_unpaced ==
    IF Len(stack) = 1
    THEN stack' = <<>> /\ pc' = "completed"
    ELSE /\ stack' = [Pop(stack) EXCEPT ![Len(stack) - 1].pc = "loop"]
         /\ pc' = pc

\* process_folder returns: to main (line 239) or into the loop of its caller
\* (line 169).
FolderReturns ==
    IF Len(stack) = 1
    THEN stack' = <<>> /\ pc' = "completed"
    ELSE /\ stack' = [Pop(stack) EXCEPT ![Len(stack) - 1].pc = "sleep"]
         /\ pc' = pc

\* e is raised in the innermost process_folder.  A handler that lets e pass
\* hands it to the caller's handler, which is the same clause, and at last
\* to main.
RaiseInFolder(e) ==
    IF FolderCatches(e)
    THEN FolderReturns
    ELSE stack' = <<>> /\ pc' = MainOutcome(e)

\* process_thread returns and the loop takes the next child without a pause.
thread_returns_unpaced ==
    /\ thr' = NoThread
    /\ stack' = [stack EXCEPT ![Len(stack)].pc = "loop"]
    /\ pc' = pc

\* process_thread returns into the loop of process_folder (line 163).
ThreadReturns ==
    /\ thr' = NoThread
    /\ stack' = [stack EXCEPT ![Len(stack)].pc = "sleep"]
    /\ pc' = pc

\* e is raised in process_thread, outside download_blob.
RaiseInThread(e) ==
    IF ThreadCatches(e)
    THEN ThreadReturns
    ELSE thr' = NoThread /\ RaiseInFolder(e)

(***************************************************************************)
(* main, lines 212-243.                                                    *)
(***************************************************************************)
NewFrame(id, base, depth, pos) ==
    [folder_id |-> id, base_path |-> base, depth |-> depth, pos |-> pos,
     pc |-> "get_folder", current_path |-> <<>>, children |-> <<>>,
     processed_items |-> 0]

\* quip.QuipClient(...), lines 213-222.
main_client ==
    /\ pc = "client"
    /\ \E o \in {"ok", "raise"} :
          /\ Answers(Site(<<>>, "client", 0), o)
          /\ pc' = IF o = "ok" THEN "resolve" ELSE "exit1"
    /\ UNCHANGED <<link, hier, folder_id, stack, thr, dirs, files, log,
                   sleeps, runs, firstRun, interrupted>>

\* extract_id_from_link and the test of its result, lines 225-230.
main_extract ==
    /\ pc = "resolve"
    /\ folder_id' = extract_id_from_link(link)
    /\ pc' = IF IdMissing(folder_id') THEN "exit1" ELSE "mkroot"
    /\ UNCHANGED <<link, hier, stack, thr, dirs, files, oracle, log,
                   sleeps, runs, firstRun, interrupted>>

\* create_directory_if_not_exists(args.output) and the call of
\* process_folder, lines 235-238.  An error of makedirs is outside the try.
main_mkroot ==
    /\ pc = "mkroot"
    /\ IF Exists(dirs, files, <<OutputName>>)
       THEN /\ UNCHANGED <<dirs, oracle, log>>
            /\ pc' = "walk"
       ELSE \E o \in {"ok", "raise"} :
              /\ Answers(FsSite("mkdir", <<OutputName>>), o)
              /\ IF o = "raise" \/ makedirs_raises(files, <<OutputName>>)
                 THEN pc' = "uncaught" /\ UNCHANGED <<dirs, log>>
                 ELSE /\ pc' = "walk"
                      /\ dirs' = makedirs(dirs, <<OutputName>>)
                      /\ log' = Append(log,
                                Event("mkroot", <<>>, 0, <<OutputName>>, "ok"))
    /\ stack' = IF pc' = "walk"
                THEN <<NewFrame(RemoteId(folder_id), <<OutputName>>, 0, <<>>)>>
                ELSE <<>>
    /\ UNCHANGED <<link, hier, folder_id, thr, files, sleeps, runs, firstRun,
                   interrupted>>

(***************************************************************************)
(* process_folder, lines 117-174.                                          *)
(***************************************************************************)
InFolder == pc = "walk" /\ stack # <<>> /\ thr = NoThread

\* `'error' in ...` of lines 68 and 125.
never_error(response) == FALSE
IsError(response) == "error" \in DOMAIN response

\* client.get_folder(folder_id) answers.
get_folder(h, id, o) ==
    IF o = "ok" /\ id \in DOMAIN RemoteFolders(h)
    THEN RemoteFolders(h)[id]
    ELSE ErrorPayload

\* The order in which `for child in children` takes the n children.
IterReversed(n) == [k \in 1..n |-> n + 1 - k]
IterFirstAgain(n) == [k \in 1..n |-> 1]
IterOrder(n) == [k \in 1..n |-> k]

\* The children looked up below the 'folder' key (lines 144-145).
children_below_folder_key(folder) ==
    Get(Get(folder, "folder", <<>>), "children", <<>>)

\* Lines 141-143: the children, none if the key is missing.
Children(folder) ==
    IF "children" \in DOMAIN folder THEN folder.children ELSE <<>>

\* The call of line 166 has gone as deep as the interpreter lets it: the
\* first call the new process_folder makes raises RecursionError.
TooDeep(depth) == depth >= MaxDepth

\* Lines 123-143: the fetch, the error test, the title, the children.
folder_get ==
    /\ InFolder /\ Top.pc = "get_folder"
    /\ IF TooDeep(Top.depth)
       THEN /\ RaiseInFolder("Exception")
            /\ oracle' = oracle
            /\ log' = Append(log, Event("get_folder", Top.pos, 0, <<>>, "raise"))
       ELSE
       \E o \in Outcomes("get_folder") :
          /\ Answers(Site(Top.pos, "get_folder", 0), o)
          /\ LET folder == get_folder(hier, Top.folder_id, o)
                 title  == Get(Get(folder, "folder", <<>>), "title",
                               Str(Unknown_Folder))
             IN  IF o = "raise" THEN RaiseInFolder("Exception")
                 ELSE IF IsError(folder) THEN FolderReturns
                 ELSE IF sanitize_raises(title) THEN RaiseInFolder("Exception")
                 ELSE /\ stack' = [stack EXCEPT ![Len(stack)] =
                            [@ EXCEPT
                               !.pc = "mkdir",
                               !.current_path =
                                   Join(Top.base_path, sanitize_filename(title)),
                               !.children = Children(folder)]]
                      /\ pc' = pc
          /\ log' = Append(log, Event("get_folder", Top.pos, 0, <<>>,
                        Answer(o, get_folder(hier, Top.folder_id, o))))
    /\ UNCHANGED <<link, hier, folder_id, thr, dirs, files, sleeps, runs,
                   firstRun, interrupted>>

\* Lines 133-154: create_directory_if_not_exists(current_path).
folder_mkdir ==
    /\ InFolder /\ Top.pc = "mkdir"
    /\ IF Exists(dirs, files, Top.current_path)
       THEN /\ UNCHANGED <<dirs, oracle, log>>
            /\ stack' = [stack EXCEPT ![Len(stack)].pc = "loop"]
            /\ pc' = pc
       ELSE \E o \in {"ok", "raise"} :
              /\ Answers(FsSite("mkdir", Top.current_path), o)
              /\ IF o = "raise" \/ makedirs_raises(files, Top.current_path)
                 THEN /\ RaiseInFolder("Exception")
                      /\ dirs' = dirs
                      /\ log' = Append(log, Event("mkdir", Top.pos, 0,
                                                  Top.current_path, "raise"))
                 ELSE /\ dirs' = makedirs(dirs, Top.current_path)
                      /\ log' = Append(log, Event("mkdir", Top.pos, 0,
                                                  Top.current_path, "ok"))
                      /\ stack' = [stack EXCEPT ![Len(stack)].pc = "loop"]
                      /\ pc' = pc
    /\ UNCHANGED <<link, hier, folder_id, thr, files, sleeps, runs, firstRun,
                   interrupted>>

NewThread(id, path, pos) ==
    [pc |-> "get_thread", thread_id |-> id, current_path |-> path,
     pos |-> pos, thread_data |-> <<>>, thread_title |-> <<>>,
     bi |-> 0, blob_name |-> <<>>]

\* Lines 156-166 and 171: the next child is dispatched, or the folder is
\* completed.
folder_loop ==
    /\ InFolder /\ Top.pc = "loop"
    /\ LET n == Len(Top.children)
           k == Top.processed_items + 1
       IN  IF k > n
           THEN FolderReturns /\ UNCHANGED <<thr, log>>
           ELSE LET c     == IterOrder(n)[k]
                    child == Top.children[c]
                    cpos  == Append(Top.pos, c)
                    here(state) == [stack EXCEPT ![Len(stack)] =
                                      [@ EXCEPT !.pc = state,
                                                !.processed_items = k]]
                IN  /\ pc' = pc
                    /\ IF "thread_id" \in DOMAIN child
                       THEN /\ thr' = NewThread(child.thread_id,
                                                Top.current_path, cpos)
                            /\ stack' = here("call")
                            /\ log' = Append(log,
                                        Event("process_thread", cpos, 0, <<>>, "ok"))
                       ELSE IF "folder_id" \in DOMAIN child
                       THEN /\ stack' = Append(here("call"),
                                   NewFrame(child.folder_id, Top.current_path,
                                            Top.depth + 1, cpos))
                            /\ log' = Append(log,
                                        Event("process_folder", cpos, 0, <<>>, "ok"))
                            /\ thr' = thr
                       ELSE /\ stack' = here("sleep")
                            /\ UNCHANGED <<thr, log>>
    /\ UNCHANGED <<link, hier, folder_id, dirs, files, oracle, sleeps, runs,
                   firstRun, interrupted>>

\* Line 169: time.sleep(0.5), after the child whatever it was.
folder_sleep ==
    /\ InFolder /\ Top.pc = "sleep"
    /\ sleeps' = sleeps + 1
    /\ log' = Append(log, Event("sleep",
                 Append(Top.pos, IterOrder(Len(Top.children))[Top.processed_items]),
                 0, <<>>, "ok"))
    /\ stack' = [stack EXCEPT ![Len(stack)].pc = "loop"]
    /\ UNCHANGED <<link, hier, pc, folder_id, thr, dirs, files, oracle, runs,
                   firstRun, interrupted>>

(***************************************************************************)
(* process_thread, lines 63-114, and download_blob, lines 50-60.           *)
(***************************************************************************)
InThread(at) == pc = "walk" /\ stack # <<>> /\ thr.pc = at

\* client.get_thread(thread_id) answers.
get_thread(h, id, o) ==
    IF o = "ok" /\ id \in DOMAIN RemoteThreads(h)
    THEN RemoteThreads(h)[id]
    ELSE ErrorPayload

docx_path(t) == Join(t.current_path, t.thread_title \o DocxExt)
html_path(t) == Join(t.current_path, t.thread_title \o HtmlExt)
\* The attachments in a directory named by the title, below the folder's.
attachments_inside_title(t) ==
    Join(Join(t.current_path, t.thread_title), <<"a", "t", "t">>)
attachments_path(t) == Join(t.current_path, t.thread_title \o AttachmentsSuffix)
blob_path(t) == Join(attachments_path(t), t.blob_name)

\* `if content:` of line 93, content being thread_data.get('html').
HasFallback(thread_data) ==
    "html" \in DOMAIN thread_data /\ thread_data.html # ""

fallback_never(export_ok, thread_data) == FALSE

\* Lines 87-93: the fallback is written when the export did not answer 200
\* and the markup is there.
WritesFallback(export_ok, thread_data) ==
    ~export_ok /\ HasFallback(thread_data)

\* Lines 104-110 from blob number bi on: the next blob to download, the end
\* of the list, or the TypeError of a name that is no string.
RECURSIVE NextBlob(_, _)
NextBlob(blobs, bi) ==
    IF bi > Len(blobs)
    THEN [kind |-> "done", bi |-> bi, blob_name |-> <<>>]
    ELSE LET blob == blobs[bi]
             name == Get(blob, "name", Str(Unknown_Attachment))
         IN  IF sanitize_raises(name)
             THEN [kind |-> "raise", bi |-> bi, blob_name |-> <<>>]
             ELSE IF "url" \notin DOMAIN blob \/ blob.url = ""
             THEN NextBlob(blobs, bi + 1)
             ELSE [kind |-> "blob", bi |-> bi,
                   blob_name |-> sanitize_filename(name)]

\* The loop of lines 104-111 goes on with blob number bi.
BlobLoop(bi) ==
    LET nb == NextBlob(thr.thread_data.blobs, bi)
    IN  IF nb.kind = "done" THEN ThreadReturns
        ELSE IF nb.kind = "raise" THEN RaiseInThread("Exception")
        ELSE /\ thr' = [thr EXCEPT !.pc = "blob_get", !.bi = nb.bi,
                                   !.blob_name = nb.blob_name]
             /\ UNCHANGED <<stack, pc>>

\* Lines 98-102: after the export, the attachments if there are any.
AfterExport ==
    IF Get(thr.thread_data, "blobs", <<>>) # <<>>
    THEN thr' = [thr EXCEPT !.pc = "att_mkdir"] /\ UNCHANGED <<stack, pc>>
    ELSE ThreadReturns

\* e is raised in download_blob, which then returns False (line 60).
RaiseInBlob(e) ==
    IF BlobCatches(e) THEN BlobLoop(thr.bi + 1) ELSE RaiseInThread(e)

\* Lines 66-73: the fetch, the error test, the title.
thread_get ==
    /\ InThread("get_thread")
    /\ \E o \in Outcomes("get_thread") :
          /\ Answers(Site(thr.pos, "get_thread", 0), o)
          /\ LET thread_data == get_thread(hier, thr.thread_id, o)
                 title == Get(Get(thread_data, "thread", <<>>), "title",
                              Str(Unknown_Document))
             IN  IF o = "raise" THEN RaiseInThread("Exception")
                 ELSE IF IsError(thread_data) THEN ThreadReturns
                 ELSE IF sanitize_raises(title) THEN RaiseInThread("Exception")
                 ELSE /\ thr' = [thr EXCEPT
                                   !.pc = "export",
                                   !.thread_data = thread_data,
                                   !.thread_title = sanitize_filename(title)]
                      /\ UNCHANGED <<stack, pc>>
          /\ log' = Append(log, Event("get_thread", thr.pos, 0, <<>>,
                        Answer(o, get_thread(hier, thr.thread_id, o))))
    /\ UNCHANGED <<link, hier, folder_id, dirs, files, sleeps, runs, firstRun,
                   interrupted>>

\* Lines 76-93: the export request and what its status leads to.
thread_export ==
    /\ InThread("export")
    /\ \E o \in Outcomes("export") :
          /\ Answers(Site(thr.pos, "export", 0), o)
          /\ IF o = "raise" THEN RaiseInThread("Exception")
             ELSE IF o = "ok"
             THEN thr' = [thr EXCEPT !.pc = "write_docx"]
                  /\ UNCHANGED <<stack, pc>>
             ELSE IF WritesFallback(o = "ok", thr.thread_data)
             THEN thr' = [thr EXCEPT !.pc = "write_html"]
                  /\ UNCHANGED <<stack, pc>>
             ELSE AfterExport
          /\ log' = Append(log, Event("export", thr.pos, 0, <<>>, o))
    /\ UNCHANGED <<link, hier, folder_id, dirs, files, sleeps, runs, firstRun,
                   interrupted>>

\* A file of process_thread is opened and written: the step raises, or the
\* file holds the content and `after` goes on.
WriteStep(op, n, path, content, raise, after) ==
    \E o \in {"ok", "raise"} :
       /\ Answers(FsSite("write", path), o)
       /\ IF o = "raise" \/ open_raises(dirs, path)
          THEN /\ raise
               /\ files' = files
               /\ log' = Append(log, Event(op, thr.pos, n, path, "raise"))
          ELSE /\ files' = write_file(files, path, content)
               /\ log' = Append(log, Event(op, thr.pos, n, path, "ok"))
               /\ after

\* Lines 84-85.
thread_write_docx ==
    /\ InThread("write_docx")
    /\ WriteStep("write_docx", 0, docx_path(thr),
                 <<"docx", thr.thread_id>>,
                 RaiseInThread("Exception"), AfterExport)
    /\ UNCHANGED <<link, hier, folder_id, dirs, sleeps, runs, firstRun,
                   interrupted>>

\* Lines 94-95.
thread_write_html ==
    /\ InThread("write_html")
    /\ WriteStep("write_html", 0, html_path(thr),
                 <<"html", thr.thread_data.html>>,
                 RaiseInThread("Exception"), AfterExport)
    /\ UNCHANGED <<link, hier, folder_id, dirs, sleeps, runs, firstRun,
                   interrupted>>

\* Lines 101-102: create_directory_if_not_exists(attachments_path).
thread_att_mkdir ==
    /\ InThread("att_mkdir")
    /\ IF Exists(dirs, files, attachments_path(thr))
       THEN UNCHANGED <<dirs, oracle, log>> /\ BlobLoop(1)
       ELSE \E o \in {"ok", "raise"} :
              /\ Answers(FsSite("mkdir", attachments_path(thr)), o)
              /\ IF o = "raise" \/ makedirs_raises(files, attachments_path(thr))
                 THEN /\ RaiseInThread("Exception")
                      /\ dirs' = dirs
                      /\ log' = Append(log, Event("mkdir", thr.pos, 0,
                                            attachments_path(thr), "raise"))
                 ELSE /\ dirs' = makedirs(dirs, attachments_path(thr))
                      /\ log' = Append(log, Event("mkdir", thr.pos, 0,
                                            attachments_path(thr), "ok"))
                      /\ BlobLoop(1)
    /\ UNCHANGED <<link, hier, folder_id, files, sleeps, runs, firstRun,
                   interrupted>>

\* Lines 53-54 of download_blob: the request and raise_for_status.
blob_get ==
    /\ InThread("blob_get")
    /\ \E o \in Outcomes("blob_get") :
          /\ Answers(Site(thr.pos, "blob_get", thr.bi), o)
          /\ IF o = "ok"
             THEN thr' = [thr EXCEPT !.pc = "blob_write"]
                  /\ UNCHANGED <<stack, pc>>
             ELSE RaiseInBlob("Exception")
          /\ log' = Append(log,
                      Event("blob_get", thr.pos, thr.bi, blob_path(thr), o))
    /\ UNCHANGED <<link, hier, folder_id, dirs, files, sleeps, runs, firstRun,
                   interrupted>>

\* Lines 55-57 of download_blob.
blob_write ==
    /\ InThread("blob_write")
    /\ WriteStep("write_blob", thr.bi, blob_path(thr),
                 <<"blob", thr.thread_data.blobs[thr.bi].url>>,
                 RaiseInBlob("Exception"), BlobLoop(thr.bi + 1))
    /\ UNCHANGED <<link, hier, folder_id, dirs, sleeps, runs, firstRun,
                   interrupted>>

(***************************************************************************)
(* The environment: the user's interrupt, and a second run.                *)
(***************************************************************************)
\* KeyboardInterrupt is raised where the program is.
Interrupt ==
    /\ pc \in {"client", "resolve", "mkroot", "walk"}
    /\ IF pc # "walk"
       THEN pc' = "uncaught" /\ UNCHANGED <<stack, thr, interrupted>>
       ELSE /\ interrupted' = TRUE
            /\ IF thr.pc \in {"blob_get", "blob_write"}
               THEN RaiseInBlob("KeyboardInterrupt")
               ELSE IF thr # NoThread
               THEN RaiseInThread("KeyboardInterrupt")
               ELSE thr' = thr /\ RaiseInFolder("KeyboardInterrupt")
    /\ UNCHANGED <<link, hier, folder_id, dirs, files, oracle, log, sleeps,
                   runs, firstRun>>

\* The program is run again with the same arguments, the remote store
\* answering as before.
Rerun ==
    /\ pc = "completed"
    /\ runs < MaxRuns
    /\ pc' = "client"
    /\ runs' = runs + 1
    /\ firstRun' = IF runs = 1 THEN [dirs |-> dirs, files |-> files]
                   ELSE firstRun
    /\ folder_id' = <<>>
    /\ log' = <<>>
    /\ sleeps' = 0
    /\ interrupted' = FALSE
    /\ UNCHANGED <<link, hier, stack, thr, dirs, files, oracle>>

Next ==
    \/ main_client
    \/ main_extract
    \/ main_mkroot
    \/ folder_get
    \/ folder_mkdir
    \/ folder_loop
    \/ folder_sleep
    \/ thread_get
    \/ thread_export
    \/ thread_write_docx
    \/ thread_write_html
    \/ thread_att_mkdir
    \/ blob_get
    \/ blob_write
    \/ Interrupt
    \/ Rerun

Spec == Init /\ [][Next]_vars

\* The program run against the store "pair".
InitPair ==
    /\ link \in Links
    /\ hier = "pair"
    /\ pc = "client"
    /\ folder_id = <<>>
    /\ stack = <<>>
    /\ thr = NoThread
    /\ dirs = {<<>>}
    /\ files = <<>>
    /\ oracle = <<>>
    /\ log = <<>>
    /\ sleeps = 0
    /\ runs = 1
    /\ firstRun = NoDisk
    /\ interrupted = FALSE

SpecPair == InitPair /\ [][Next]_vars

\* The program run with each form of link, against the store "pair".
InitLinks ==
    /\ link \in LinkForms
    /\ hier = "pair"
    /\ pc = "client"
    /\ folder_id = <<>>
    /\ stack = <<>>
    /\ thr = NoThread
    /\ dirs = {<<>>}
    /\ files = <<>>
    /\ oracle = <<>>
    /\ log = <<>>
    /\ sleeps = 0
    /\ runs = 1
    /\ firstRun = NoDisk
    /\ interrupted = FALSE

SpecLinks == InitLinks /\ [][Next]_vars

\* The steps of the traversal: process_folder runs on as long as it has a
\* step to take, every call it makes returning or raising.
Traversal ==
    \/ folder_get
    \/ folder_mkdir
    \/ folder_loop
    \/ folder_sleep
    \/ thread_get
    \/ thread_export
    \/ thread_write_docx
    \/ thread_write_html
    \/ thread_att_mkdir
    \/ blob_get
    \/ blob_write

\* The program run against the stores "pair" (without cycle) and "cycle".
InitCycle ==
    /\ link = Https \o <<"/", "p", "/", "R", "#", "x">>
    /\ hier \in {"pair", "cycle"}
    /\ pc = "client"
    /\ folder_id = <<>>
    /\ stack = <<>>
    /\ thr = NoThread
    /\ dirs = {<<>>}
    /\ files = <<>>
    /\ oracle = <<>>
    /\ log = <<>>
    /\ sleeps = 0
    /\ runs = 1
    /\ firstRun = NoDisk
    /\ interrupted = FALSE

FairCycle == InitCycle /\ [][Next]_vars /\ WF_vars(Traversal)

(***************************************************************************)
(* What the claims are stated with.                                        *)
(***************************************************************************)
LogIdx == 1..Len(log)
IsPrefix(p, q) == Len(p) <= Len(q) /\ SubSeq(q, 1, Len(p)) = p
Below(p, q) == IsPrefix(p, q) /\ p # q
Dispatches == {"process_thread", "process_folder"}
Dispatched(p) == \E i \in LogIdx : log[i].op \in Dispatches /\ log[i].pos = p
Count(op, p) == Cardinality({i \in LogIdx : log[i].op = op /\ log[i].pos = p})

\* The id of the node at place pos, and the children the store lists for it.
RECURSIVE IdAt(_)
IdAt(pos) ==
    IF pos = <<>> THEN RemoteId(folder_id)
    ELSE LET child == RemoteFolders(hier)[IdAt(Parent(pos))].children[Last(pos)]
         IN  IF "thread_id" \in DOMAIN child THEN child.thread_id
             ELSE child.folder_id
ChildrenAt(pos) == Get(RemoteFolders(hier)[IdAt(pos)], "children", <<>>)
Dispatchable(child) ==
    "thread_id" \in DOMAIN child \/ "folder_id" \in DOMAIN child
\* The places of the siblings that follow the node at p and are documents or
\* folders.
LaterSiblings(p) ==
    IF p = <<>> THEN {}
    ELSE {Append(Parent(p), k) : k \in
            {k \in (Last(p) + 1)..Len(ChildrenAt(Parent(p))) :
                Dispatchable(ChildrenAt(Parent(p))[k])}}
\* The thread at place p has run to its end in this run.
ThreadOver(p) ==
    /\ pc \in {"walk", "completed"}
    /\ Dispatched(p)
    /\ ~(thr # NoThread /\ thr.pos = p)

(***************************************************************************)
(* C1.  A folder whose fetch answers with an error payload: process_folder *)
(* logs and returns.  Nothing is fetched, created or written for the       *)
(* folder or below it, none of its children is dispatched, and once the    *)
(* walk is completed every later sibling that is a document or a folder    *)
(* has been dispatched.                                                    *)
(***************************************************************************)
C1_ErrorFolderIsSkipped ==
    \A i \in LogIdx :
       (log[i].op = "get_folder" /\ log[i].res = "error") =>
          LET p == log[i].pos
          IN  /\ \A j \in LogIdx :
                    /\ ~Below(p, log[j].pos)
                    /\ (j > i /\ log[j].pos = p) => log[j].op = "sleep"
              /\ Count("get_folder", p) = 1
              /\ pc = "completed" => \A q \in LaterSiblings(p) : Dispatched(q)

C1_Witness ==
    /\ pc = "completed"
    /\ \E i \in LogIdx :
          /\ log[i].op = "get_folder" /\ log[i].res = "error"
          /\ ChildrenAt(log[i].pos) # <<>>
          /\ LaterSiblings(log[i].pos) # {}
          /\ \A q \in LaterSiblings(log[i].pos) : Dispatched(q)

(***************************************************************************)
(* C2.  A document whose fetch succeeded, whose export answered with a     *)
(* status other than 200 and whose metadata holds fallback markup: once    *)
(* process_thread is over it has written the fallback file once and the    *)
(* primary file never, and the fallback file is on disk with the markup    *)
(* unless its write raised.  No call of process_thread writes both.        *)
(***************************************************************************)
C2_FallbackOnly ==
    /\ \A i \in LogIdx :
          (/\ log[i].op = "export" /\ log[i].res = "status"
           /\ HasFallback(RemoteThreads(hier)[IdAt(log[i].pos)])
           /\ ThreadOver(log[i].pos)) =>
             LET p == log[i].pos
             IN  /\ Count("write_html", p) = 1
                 /\ Count("write_docx", p) = 0
                 /\ \A j \in LogIdx :
                       (log[j].op = "write_html" /\ log[j].pos = p
                        /\ log[j].res = "ok") =>
                          /\ log[j].path \in DOMAIN files
                          /\ Last(log[j].path) =
                                sanitize_filename(Get(
                                   RemoteThreads(hier)[IdAt(p)].thread,
                                   "title", Str(Unknown_Document))) \o HtmlExt
    /\ \A i, j \in LogIdx :
          ~(/\ log[i].op = "write_docx" /\ log[j].op = "write_html"
            /\ log[i].pos = log[j].pos)

C2_Witness ==
    \E i, j \in LogIdx :
       /\ log[i].op = "export" /\ log[i].res = "status"
       /\ log[j].op = "write_html" /\ log[j].res = "ok"
       /\ log[j].pos = log[i].pos
       /\ ThreadOver(log[i].pos)
       /\ log[j].path \in DOMAIN files

(***************************************************************************)
(* C3.  Whenever the export of a document does not succeed, be it by a     *)
(* status other than 200 or by an error the request raises, the fallback   *)
(* is written if the metadata holds markup, and the attachments are gone   *)
(* through (the first attachment with a url is requested).                 *)
(***************************************************************************)
C3_FallbackAfterAnyExportFailure ==
    \A i \in LogIdx :
       (/\ log[i].op = "export" /\ log[i].res \in {"status", "raise"}
        /\ ThreadOver(log[i].pos)) =>
          LET p == log[i].pos
              thread_data == RemoteThreads(hier)[IdAt(p)]
              blobs == Get(thread_data, "blobs", <<>>)
          IN  /\ HasFallback(thread_data) => Count("write_html", p) = 1
              /\ (/\ NextBlob(blobs, 1).kind = "blob"
                  /\ \A j \in LogIdx :
                        (log[j].op = "write_html" /\ log[j].pos = p) =>
                            log[j].res = "ok") =>
                    \E j \in LogIdx :
                       /\ log[j].op = "blob_get" /\ log[j].pos = p
                       /\ log[j].n = NextBlob(blobs, 1).bi

(***************************************************************************)
(* C4.  A download of an attachment that fails (a status that              *)
(* raise_for_status rejects, an error of the request, an error of open or  *)
(* write) is answered inside download_blob: the export file the document   *)
(* wrote before stays on disk, and once process_thread is over every later *)
(* attachment that has a url has been requested.                           *)
(***************************************************************************)
FailedDownload(e) ==
    \/ e.op = "blob_get" /\ e.res # "ok"
    \/ e.op = "write_blob" /\ e.res = "raise"

\* The blobs after number n up to number m all have names that are strings.
NamesAreStrings(blobs, n, m) ==
    \A k \in (n + 1)..m :
       ~sanitize_raises(Get(blobs[k], "name", Str(Unknown_Attachment)))

C4_AttachmentFailureIsContained ==
    \A i \in LogIdx :
       FailedDownload(log[i]) =>
          LET p == log[i].pos
              blobs == RemoteThreads(hier)[IdAt(p)].blobs
          IN  /\ \A j \in LogIdx :
                    (/\ log[j].pos = p /\ log[j].res = "ok"
                     /\ log[j].op \in {"write_docx", "write_html"}) =>
                        log[j].path \in DOMAIN files
              /\ ThreadOver(p) =>
                    \A m \in (log[i].n + 1)..Len(blobs) :
                       (/\ "url" \in DOMAIN blobs[m]
                        /\ NamesAreStrings(blobs, log[i].n, m)) =>
                          \E j \in LogIdx :
                             /\ j > i
                             /\ log[j].op = "blob_get"
                             /\ log[j].pos = p /\ log[j].n = m

C4_Witness ==
    \E i, j, k \in LogIdx :
       /\ log[i].op = "blob_get" /\ log[i].res = "status"
       /\ log[j].op = "write_blob" /\ log[j].res = "ok"
       /\ log[j].pos = log[i].pos /\ log[j].n > log[i].n
       /\ log[k].op = "write_docx" /\ log[k].res = "ok"
       /\ log[k].pos = log[i].pos /\ log[k].path \in DOMAIN files
       /\ ThreadOver(log[i].pos)

(***************************************************************************)
(* C5.  No error of process_thread or of a recursive process_folder        *)
(* reaches the loop of the calling process_folder: the session never ends  *)
(* as failed, and in a completed walk every document or folder that        *)
(* follows a dispatched child in the child sequence has been dispatched    *)
(* too, whatever went wrong in that child.                                 *)
(***************************************************************************)
C5_ErrorsStayInTheirNode ==
    /\ pc # "failed"
    /\ pc = "completed" =>
          \A i \in LogIdx :
             log[i].op \in Dispatches =>
                \A q \in LaterSiblings(log[i].pos) : Dispatched(q)

C5_Witness ==
    /\ pc = "completed"
    /\ \E i, j \in LogIdx :
          /\ log[i].op \in {"get_thread", "export", "write_docx"}
          /\ log[i].res = "raise"
          /\ log[j].op = "get_folder" /\ log[j].res = "raise"
          /\ Len(log[j].pos) = 1
          /\ LaterSiblings(log[i].pos) # {}
          /\ LaterSiblings(log[j].pos) # {}
          /\ \A q \in LaterSiblings(log[i].pos) \cup LaterSiblings(log[j].pos) :
                Dispatched(q)

(***************************************************************************)
(* C6.  As claimed: after an uninterrupted walk every folder has made      *)
(* exactly one directory of its own, every document has written exactly    *)
(* one export file of its own (and made one attachments directory if it    *)
(* has attachments), and no two nodes share a directory or an export file. *)
(* Stated here for the walks in which no call failed.                      *)
(***************************************************************************)
FolderPlaces == {log[i].pos : i \in {j \in LogIdx : log[j].op = "get_folder"}}
ThreadPlaces == {log[i].pos : i \in {j \in LogIdx : log[j].op = "get_thread"}}
NothingFailed == \A i \in LogIdx : log[i].res = "ok"
ExportWrites(p) == Count("write_docx", p) + Count("write_html", p)
PathsOf(ops, p) ==
    {log[i].path : i \in {j \in LogIdx : log[j].op \in ops /\ log[j].pos = p}}

C6_OneEntryPerNode ==
    (pc = "completed" /\ runs = 1 /\ NothingFailed) =>
       /\ \A p \in FolderPlaces : Count("mkdir", p) = 1
       /\ \A p \in ThreadPlaces :
             /\ ExportWrites(p) = 1
             /\ Get(RemoteThreads(hier)[IdAt(p)], "blobs", <<>>) # <<>> =>
                   Count("mkdir", p) = 1
       /\ \A p, q \in FolderPlaces \cup ThreadPlaces :
             p # q =>
                PathsOf({"mkdir", "write_docx", "write_html"}, p)
                   \cap PathsOf({"mkdir", "write_docx", "write_html"}, q) = {}

(***************************************************************************)
(* C6, amended.  After an uninterrupted walk every folder whose fetch      *)
(* succeeded has made at most one directory, and its path, the base path   *)
(* joined with its sanitized title, exists unless the creation raised.     *)
(* Every document has issued at most one export write, and exactly one if  *)
(* its fetch succeeded and the export answered 200 or fallback markup is   *)
(* there; it has made at most one directory, named by its sanitized title  *)
(* and _attachments, and none if it has no attachments.  Nodes are not     *)
(* kept apart: equal sanitized titles give equal paths.                    *)
(***************************************************************************)
TitleAt(p, kind, default) ==
    Get(Get(IF kind = "folder" THEN RemoteFolders(hier)[IdAt(p)]
            ELSE RemoteThreads(hier)[IdAt(p)], kind, <<>>),
        "title", Str(default))

RECURSIVE FolderPathAt(_)
FolderPathAt(p) ==
    Join(IF p = <<>> THEN <<OutputName>> ELSE FolderPathAt(Parent(p)),
         sanitize_filename(TitleAt(p, "folder", Unknown_Folder)))

Result(op, p) ==
    IF \E i \in LogIdx : log[i].op = op /\ log[i].pos = p
    THEN log[CHOOSE i \in LogIdx : log[i].op = op /\ log[i].pos = p].res
    ELSE "none"

C6_AtMostOneEntryPerNode ==
    pc = "completed" =>
       /\ \A p \in FolderPlaces :
             /\ Count("mkdir", p) <= 1
             /\ (/\ Result("get_folder", p) = "ok"
                 /\ ~sanitize_raises(TitleAt(p, "folder", Unknown_Folder))
                 /\ Result("mkdir", p) # "raise") =>
                   Exists(dirs, files, FolderPathAt(p))
       /\ \A p \in ThreadPlaces :
             LET thread_data == RemoteThreads(hier)[IdAt(p)]
                 title == TitleAt(p, "thread", Unknown_Document)
             IN  /\ ExportWrites(p) <= 1
                 /\ ExportWrites(p) = 1 <=>
                       /\ Result("get_thread", p) = "ok"
                       /\ ~sanitize_raises(title)
                       /\ \/ Result("export", p) = "ok"
                          \/ /\ Result("export", p) = "status"
                             /\ HasFallback(thread_data)
                 /\ Count("mkdir", p) <= 1
                 /\ \A i \in LogIdx :
                       (log[i].op = "mkdir" /\ log[i].pos = p) =>
                          /\ Get(thread_data, "blobs", <<>>) # <<>>
                          /\ Last(log[i].path) =
                                sanitize_filename(title) \o AttachmentsSuffix
                          /\ log[i].res = "ok" => log[i].path \in dirs

\* Two folders that were both fetched and share their directory, each
\* with a document that wrote its export file.
C6_Witness ==
    /\ pc = "completed"
    /\ \E p, q \in FolderPlaces :
          /\ p # q
          /\ Result("get_folder", p) = "ok" /\ Result("get_folder", q) = "ok"
          /\ Result("mkdir", p) = "ok"
          /\ FolderPathAt(p) = FolderPathAt(q)
          /\ Norm(FolderPathAt(p)) \in dirs
    /\ \E p \in ThreadPlaces :
          /\ ExportWrites(p) = 1
          /\ Count("mkdir", p) = 1

(***************************************************************************)
(* C7.  The walk is depth first and in sequence: of two entries of the     *)
(* log, the later one never belongs to a node that comes before the        *)
(* earlier one's node in the order of the child sequences, nor (the pause  *)
(* after a child apart) to one of its ancestors.  So all that belongs to   *)
(* a child and its descendants precedes all that belongs to the next       *)
(* child, and children are dispatched in the order of the fetched          *)
(* sequence.                                                               *)
(***************************************************************************)
Min(a, b) == IF a <= b THEN a ELSE b

\* p and q part at some index, and p takes the later child there.
ComesAfter(p, q) ==
    \E k \in 1..Min(Len(p), Len(q)) :
       SubSeq(p, 1, k - 1) = SubSeq(q, 1, k - 1) /\ p[k] > q[k]

C7_DepthFirstInOrder ==
    \A i, j \in LogIdx :
       i < j => /\ ~ComesAfter(log[i].pos, log[j].pos)
                /\ log[j].op # "sleep" => ~Below(log[j].pos, log[i].pos)

C7_Witness ==
    /\ pc = "completed"
    /\ \E i, j \in LogIdx :
          /\ i < j
          /\ log[i].op = "write_docx" /\ Len(log[i].pos) = 2
          /\ log[j].op = "get_thread" /\ Len(log[j].pos) = 1
          /\ log[j].pos[1] = log[i].pos[1] + 1

(***************************************************************************)
(* C8.  A KeyboardInterrupt that arrives during the traversal passes every *)
(* handler below main: the step that delivers it ends the session as       *)
(* interrupted, with exit status 0, and changes nothing on disk; from then *)
(* on no call is made and nothing is written.                              *)
(***************************************************************************)
C8_InterruptEndsTheSession ==
    [][/\ interrupted' => (pc' = "interrupted" /\ ExitStatus(pc') = 0)
       /\ (~interrupted /\ interrupted') =>
             (dirs' = dirs /\ files' = files /\ log' = log)
       /\ pc = "interrupted" => UNCHANGED <<pc, dirs, files, log>>]_vars

C8_Witness ==
    /\ pc = "interrupted" /\ interrupted
    /\ log # <<>>
    /\ Last(log).op = "blob_get" /\ Len(Last(log).pos) = 2
    /\ \E i \in LogIdx : log[i].op = "write_docx" /\ log[i].path \in DOMAIN files

(***************************************************************************)
(* C9.  When the client cannot be constructed or the link gives an empty   *)
(* id, the session ends before the traversal: no call of process_folder,   *)
(* nothing fetched, the output root not created, exit status not 0.  And   *)
(* sys.exit(1) is reached in these two cases only.                         *)
(***************************************************************************)
ClientFailed ==
    /\ Site(<<>>, "client", 0) \in DOMAIN oracle
    /\ oracle[Site(<<>>, "client", 0)] = "raise"
Unresolved == extract_id_from_link(link) = <<>>

C9_FatalBeforeTraversal ==
    /\ (ClientFailed \/ Unresolved) =>
          /\ pc \in {"client", "resolve", "exit1", "uncaught"}
          /\ stack = <<>> /\ thr = NoThread
          /\ log = <<>>
          /\ ~Exists(dirs, files, <<OutputName>>)
          /\ pc \notin {"client", "resolve"} => ExitStatus(pc) # 0
    /\ pc = "exit1" => (ClientFailed \/ Unresolved)

C9_Witness ==
    /\ pc = "exit1"
    /\ Unresolved /\ ~ClientFailed
    /\ link # <<>>

(***************************************************************************)
(* C10.  A second run with the same arguments into the same output root,   *)
(* the remote store answering every call as in the first run, ends with    *)
(* the directories and the files, content included, that the first run     *)
(* left.                                                                   *)
(***************************************************************************)
C10_SecondRunChangesNothing ==
    (pc = "completed" /\ runs >= 2) =>
       [dirs |-> dirs, files |-> files] = firstRun

C10_Witness ==
    /\ pc = "completed" /\ runs = 2
    /\ firstRun.files # <<>>
    /\ \E i, j \in LogIdx :
          /\ i < j
          /\ log[i].op = "write_docx" /\ log[i].res = "ok"
          /\ log[j].op = "write_docx" /\ log[j].res = "ok"
          /\ log[i].path = log[j].path
          /\ files[log[i].path] # <<"docx", IdAt(log[i].pos)>>

(***************************************************************************)
(* C11.  As claimed: after an uninterrupted walk the number of pauses is   *)
(* the number of child entries of all the folders whose fetch succeeded.   *)
(***************************************************************************)
NumChildren(p) == Len(ChildrenAt(p))

\* The number of child entries of the folders at the places of S.
RECURSIVE SumChildren(_)
SumChildren(S) ==
    IF S = {} THEN 0
    ELSE LET p == CHOOSE q \in S : TRUE
         IN  NumChildren(p) + SumChildren(S \ {p})

C11_PausePerChildOfFetchedFolder ==
    (pc = "completed" /\ ~interrupted) =>
       sleeps = SumChildren({p \in FolderPlaces : Result("get_folder", p) = "ok"})

(***************************************************************************)
(* C11, amended.  Every pause follows one child entry that the loop of a   *)
(* folder has taken, and each entry taken is followed by one pause,        *)
(* whatever the entry is and however its processing ended: a folder that   *)
(* has taken k entries has paused k times, less the entry it is at.  A     *)
(* folder takes its entries only if its fetch succeeded, its title is a    *)
(* string and the creation of its directory did not raise; so after an     *)
(* uninterrupted walk the number of pauses is the number of child entries  *)
(* of the folders that got that far, and a folder whose directory could    *)
(* not be made pauses for none of its entries.                             *)
(***************************************************************************)
\* The folder at place p got to its loop over the children.
ReachedLoop(p) ==
    /\ Result("get_folder", p) = "ok"
    /\ ~sanitize_raises(TitleAt(p, "folder", Unknown_Folder))
    /\ Result("mkdir", p) # "raise"

PausesBelow(p) ==
    Cardinality({i \in LogIdx :
                   log[i].op = "sleep" /\ log[i].pos # <<>> /\ Parent(log[i].pos) = p})

C11_OnePausePerIteratedChild ==
    /\ sleeps = Cardinality({i \in LogIdx : log[i].op = "sleep"})
    /\ \A i \in LogIdx :
          log[i].op = "sleep" =>
             /\ Count("sleep", log[i].pos) = 1
             /\ Parent(log[i].pos) \in FolderPlaces
             /\ Last(log[i].pos) \in 1..NumChildren(Parent(log[i].pos))
    /\ \A n \in 1..Len(stack) :
          PausesBelow(stack[n].pos) =
             IF stack[n].pc \in {"call", "sleep"}
             THEN stack[n].processed_items - 1
             ELSE stack[n].processed_items
    /\ (pc = "completed" /\ ~interrupted) =>
          /\ \A p \in FolderPlaces :
                \A k \in 1..NumChildren(p) :
                   Count("sleep", Append(p, k)) = IF ReachedLoop(p) THEN 1 ELSE 0
          /\ sleeps = SumChildren({p \in FolderPlaces : ReachedLoop(p)})

\* A completed walk that paused after a document whose fetch raised, after
\* a folder whose fetch answered an error and after an entry that is
\* neither.
C11_Witness ==
    /\ pc = "completed"
    /\ \E i, j, k \in LogIdx :
          /\ log[i].op = "get_thread" /\ log[i].res = "raise"
          /\ log[j].op = "get_folder" /\ log[j].res = "error"
          /\ log[k].op = "sleep"
          /\ ~Dispatchable(ChildrenAt(Parent(log[k].pos))[Last(log[k].pos)])
          /\ Count("sleep", log[i].pos) = 1
          /\ Count("sleep", log[j].pos) = 1
    /\ sleeps = NumChildren(<<>>)

(***************************************************************************)
(* C12.  As claimed: between any two remote calls of a traversal (folder   *)
(* fetch, document fetch, export download, attachment download) there is   *)
(* at least one pause.                                                     *)
(***************************************************************************)
RemoteOps == {"get_folder", "get_thread", "export", "blob_get"}

PauseBetween(i, j) ==
    \E k \in LogIdx : i < k /\ k < j /\ log[k].op = "sleep"

C12_PauseBetweenAnyTwoCalls ==
    \A i, j \in LogIdx :
       (i < j /\ log[i].op \in RemoteOps /\ log[j].op \in RemoteOps) =>
          PauseBetween(i, j)

(***************************************************************************)
(* C12, amended.  The pause is made once per child entry, not once per     *)
(* remote call.  Of two remote calls of a traversal, the later one is made *)
(* at least one pause after the earlier one unless it belongs to the same  *)
(* node or to a node below the earlier one's: the calls made for two       *)
(* different children of a folder are a pause apart, while the fetch, the  *)
(* export download and the attachment downloads of one document, and the   *)
(* fetch of a folder and the calls of its first child, follow each other   *)
(* with no pause.                                                          *)
(***************************************************************************)
C12_PauseBetweenChildren ==
    \A i, j \in LogIdx :
       (i < j /\ log[i].op \in RemoteOps /\ log[j].op \in RemoteOps) =>
          \/ IsPrefix(log[i].pos, log[j].pos)
          \/ PauseBetween(i, j)

\* A document's fetch, export download and attachment download with no
\* pause between them, and after a pause the fetch of the next child.
C12_Witness ==
    \E i, j \in LogIdx :
       /\ i + 2 < j
       /\ log[i].op = "get_thread" /\ log[i + 1].op = "export"
       /\ log[i + 1].pos = log[i].pos
       /\ \E k \in (i + 2)..(j - 1) :
             /\ log[k].op = "blob_get" /\ log[k].pos = log[i].pos
             /\ ~PauseBetween(i, k)
       /\ log[j].op \in RemoteOps
       /\ ComesAfter(log[j].pos, log[i].pos)
       /\ PauseBetween(i, j)

(***************************************************************************)
(* C13.  Every path component that comes from a remote title (the title of *)
(* a folder or a document, the name of an attachment) has gone through     *)
(* sanitize_filename: no directory or file below the output root, no path  *)
(* a call is made with, and no path the walk holds has a component with    *)
(* one of the characters \ / * ? : " < > |.  Where the title has none of   *)
(* them, the name on disk is the title (with the extension or suffix the   *)
(* code appends).                                                          *)
(***************************************************************************)
NoReserved(s) == \A i \in 1..Len(s) : s[i] \notin ReservedChars

\* The components of p below the output root are free of reserved
\* characters.
CleanBelowRoot(p) == \A n \in 2..Len(p) : NoReserved(p[n])

\* The title a logged path was named after, and what the code appends.
NamedAfter(e) ==
    IF e.op = "mkdir" /\ e.pos \in FolderPlaces
    THEN [title |-> TitleAt(e.pos, "folder", Unknown_Folder), ext |-> <<>>]
    ELSE IF e.op \in {"write_blob", "blob_get"}
    THEN [title |-> Get(RemoteThreads(hier)[IdAt(e.pos)].blobs[e.n], "name",
                        Str(Unknown_Attachment)),
          ext |-> <<>>]
    ELSE [title |-> TitleAt(e.pos, "thread", Unknown_Document),
          ext |-> IF e.op = "mkdir" THEN AttachmentsSuffix
                  ELSE IF e.op = "write_docx" THEN DocxExt ELSE HtmlExt]

PathOps == {"mkdir", "write_docx", "write_html", "write_blob", "blob_get"}

C13_TitlesAreSanitized ==
    /\ \A p \in dirs \cup DOMAIN files : CleanBelowRoot(p)
    /\ \A n \in 1..Len(stack) :
          /\ CleanBelowRoot(stack[n].base_path)
          /\ CleanBelowRoot(stack[n].current_path)
    /\ thr # NoThread =>
          /\ NoReserved(thr.thread_title) /\ NoReserved(thr.blob_name)
          /\ CleanBelowRoot(thr.current_path)
    /\ \A i \in LogIdx :
          log[i].op \in PathOps =>
             LET named == NamedAfter(log[i])
             IN  /\ CleanBelowRoot(log[i].path)
                 /\ (NoReserved(named.title.v) /\ named.title.v \o named.ext # <<>>) =>
                       Last(log[i].path) = named.title.v \o named.ext

\* On disk: an attachment whose name lost a separator and a bar, in the
\* attachments directory of a document whose title lost a question mark,
\* and a directory with the title of its folder as it is.
C13_Witness ==
    \E i, j, k \in LogIdx :
       /\ log[i].op = "write_blob" /\ log[i].res = "ok"
       /\ ~NoReserved(NamedAfter(log[i]).title.v)
       /\ "/" \in {NamedAfter(log[i]).title.v[n] :
                      n \in 1..Len(NamedAfter(log[i]).title.v)}
       /\ log[i].path \in DOMAIN files
       /\ log[j].op = "mkdir" /\ log[j].pos = log[i].pos
       /\ ~NoReserved(NamedAfter(log[j]).title.v)
       /\ log[j].path \in dirs
       /\ log[k].op = "mkdir" /\ log[k].pos \in FolderPlaces
       /\ log[k].pos # <<>>
       /\ NoReserved(NamedAfter(log[k]).title.v)
       /\ Last(log[k].path) = NamedAfter(log[k]).title.v
       /\ log[k].path \in dirs

(***************************************************************************)
(* C14.  As claimed: after walking a folder whose children are one         *)
(* sub-folder and one document there are exactly two entries directly in   *)
(* the folder's directory, one directory and one export file (primary or   *)
(* fallback).  Stated here for the walks in which no call failed.          *)
(***************************************************************************)
\* The children of the folder at place p are one folder and one document,
\* in either order.
OneFolderOneDocument(p) ==
    /\ NumChildren(p) = 2
    /\ \E a, b \in 1..2 :
          /\ a # b
          /\ "folder_id" \in DOMAIN ChildrenAt(p)[a]
          /\ "thread_id" \in DOMAIN ChildrenAt(p)[b]

SubFolderOf(p) == CHOOSE a \in 1..2 : "folder_id" \in DOMAIN ChildrenAt(p)[a]
DocumentOf(p) == CHOOSE b \in 1..2 : "thread_id" \in DOMAIN ChildrenAt(p)[b]

\* What lies directly in directory d.
EntriesIn(d) ==
    {q \in dirs \cup DOMAIN files : Len(q) = Len(d) + 1 /\ IsPrefix(d, q)}

\* The names the two children of the folder at p write under.
SubDirName(p) ==
    sanitize_filename(TitleAt(Append(p, SubFolderOf(p)), "folder", Unknown_Folder))
DocName(p) ==
    sanitize_filename(TitleAt(Append(p, DocumentOf(p)), "thread", Unknown_Document))
DocBlobs(p) ==
    Get(RemoteThreads(hier)[IdAt(Append(p, DocumentOf(p)))], "blobs", <<>>)

C14_TwoEntries ==
    (pc = "completed" /\ runs = 1 /\ NothingFailed) =>
       \A p \in FolderPlaces :
          OneFolderOneDocument(p) =>
             LET d == Norm(FolderPathAt(p))
             IN  /\ Cardinality(EntriesIn(d)) = 2
                 /\ Cardinality(EntriesIn(d) \cap dirs) = 1
                 /\ \/ Append(d, DocName(p) \o DocxExt) \in DOMAIN files
                    \/ Append(d, DocName(p) \o HtmlExt) \in DOMAIN files

(***************************************************************************)
(* C14, amended.  After walking a folder whose children are one sub-folder *)
(* and one document, the entries directly in the folder's directory are    *)
(* among these: the sub-folder's directory, the document's primary or its  *)
(* fallback file (never both), and the document's attachments directory,   *)
(* which is there only if the document lists attachments.  When every      *)
(* call succeeded and the names are not empty and differ, the entries are  *)
(* the sub-directory, the primary file and, if the document lists          *)
(* attachments, the attachments directory: two entries for a document      *)
(* without attachments, three for one with.                                *)
(***************************************************************************)
NamesDiffer(p) ==
    /\ SubDirName(p) # <<>>
    /\ SubDirName(p) \notin {DocName(p) \o DocxExt, DocName(p) \o HtmlExt,
                              DocName(p) \o AttachmentsSuffix}

C14_EntriesOfThePair ==
    pc = "completed" =>
       \A p \in FolderPlaces :
          (OneFolderOneDocument(p) /\ ReachedLoop(p)) =>
             LET d    == Norm(FolderPathAt(p))
                 sub  == Append(d, SubDirName(p))
                 docx == Append(d, DocName(p) \o DocxExt)
                 html == Append(d, DocName(p) \o HtmlExt)
                 att  == Append(d, DocName(p) \o AttachmentsSuffix)
             IN  /\ EntriesIn(d) \subseteq {sub, docx, html, att}
                 /\ ~(docx \in DOMAIN files /\ html \in DOMAIN files)
                 /\ DocBlobs(p) = <<>> => att \notin dirs
                 /\ (NothingFailed /\ NamesDiffer(p)) =>
                       /\ sub \in dirs /\ docx \in DOMAIN files
                       /\ html \notin DOMAIN files
                       /\ att \in dirs <=> DocBlobs(p) # <<>>
                       /\ Cardinality(EntriesIn(d)) =
                             IF DocBlobs(p) = <<>> THEN 2 ELSE 3

\* A walk without failure that left two entries in one such folder's
\* directory and three in the other's.
C14_Witness ==
    /\ pc = "completed" /\ runs = 1 /\ NothingFailed
    /\ \E p, q \in FolderPlaces :
          /\ OneFolderOneDocument(p) /\ OneFolderOneDocument(q)
          /\ Cardinality(EntriesIn(Norm(FolderPathAt(p)))) = 2
          /\ Cardinality(EntriesIn(Norm(FolderPathAt(q)))) = 3

(***************************************************************************)
(* C15.  The id main goes on with is the last non-empty segment of the     *)
(* link's path, the path being what lies between the host and the query or *)
(* the fragment (parameters after the last segment apart).  A link whose   *)
(* path has no non-empty segment gives the empty id, and with it main      *)
(* exits with status 1 before anything is created or fetched; with any     *)
(* other link main does not exit there, and the walk starts at the folder  *)
(* of that id.                                                             *)
(***************************************************************************)
CutAt(s, set) ==
    IF FindAny(s, set) = 0 THEN s ELSE SubSeq(s, 1, FindAny(s, set) - 1)

\* Where "//" opens the host: at the start, or right after the scheme's
\* colon; 0 if the link names no host.
HostAt(s) ==
    IF \E i \in 1..(Len(s) - 1) :
          /\ s[i] = "/" /\ s[i + 1] = "/"
          /\ i = 1 \/ (s[i - 1] = ":" /\ \A j \in 1..(i - 1) : s[j] # "/")
    THEN CHOOSE i \in 1..(Len(s) - 1) :
          /\ s[i] = "/" /\ s[i + 1] = "/"
          /\ i = 1 \/ (s[i - 1] = ":" /\ \A j \in 1..(i - 1) : s[j] # "/")
    ELSE 0

\* The path of a link: without fragment, query, scheme and host.
PathOfLink(l) ==
    LET bare == CutAt(CutAt(l, {"#"}), {"?"})
        h    == HostAt(bare)
        rest == IF h = 0 THEN bare ELSE From(bare, h + 2)
    IN  IF h = 0 THEN rest
        ELSE IF FindAny(rest, {"/"}) = 0 THEN <<>>
        ELSE From(rest, FindAny(rest, {"/"}))

\* Its segments that are not empty, the parameters of the last one cut.
SegmentsOfLink(l) ==
    LET path == PathOfLink(l)
        s    == RFind(path, "/")
        cut  == SubSeq(path, 1, s) \o CutAt(From(path, s + 1), {";"})
    IN  SelectSeq(Split(cut, "/"), LAMBDA seg : seg # <<>>)

LastSegment(l) ==
    IF SegmentsOfLink(l) = <<>> THEN <<>> ELSE Last(SegmentsOfLink(l))

C15_IdIsLastSegment ==
    /\ (folder_id # <<>> \/ (pc = "exit1" /\ ~ClientFailed)) =>
          folder_id = LastSegment(link)
    /\ pc \in {"mkroot", "walk", "completed", "interrupted", "failed"} =>
          /\ folder_id # <<>>
          /\ NoReserved(folder_id) /\ "#" \notin {folder_id[n] : n \in 1..Len(folder_id)}
    /\ stack # <<>> => stack[1].folder_id = RemoteId(LastSegment(link))
    /\ LastSegment(link) = <<>> =>
          /\ pc \in {"client", "resolve", "exit1", "uncaught"}
          /\ pc = "exit1" => ExitStatus(pc) = 1
          /\ stack = <<>> /\ log = <<>>
          /\ ~Exists(dirs, files, <<OutputName>>)
    /\ (LastSegment(link) # <<>> /\ ~ClientFailed) => pc # "exit1"

\* The walk has fetched the folder named by a link that has empty
\* segments, closing separators and a fragment after the id.
C15_Witness ==
    /\ pc = "walk"
    /\ folder_id = <<"R">>
    /\ Len(SegmentsOfLink(link)) = 2
    /\ Len(Split(PathOfLink(link), "/")) > 3
    /\ Last(PathOfLink(link)) = "/"
    /\ FindAny(link, {"#"}) > 0
    /\ \E i \in LogIdx : log[i].op = "get_folder" /\ log[i].res = "ok"

(***************************************************************************)
(* C16.  A document whose fetch answers with an error payload:             *)
(* process_thread logs and returns at once.  Between its dispatch and the  *)
(* pause that follows it the fetch is all that happens for the document:   *)
(* no export request, no write of a primary or fallback file, no creation  *)
(* of an attachments directory, no attachment request.                     *)
(***************************************************************************)
C16_ErrorDocumentIsSkipped ==
    \A i \in LogIdx :
       (log[i].op = "get_thread" /\ log[i].res = "error") =>
          LET p == log[i].pos
          IN  /\ \A j \in LogIdx :
                    log[j].pos = p =>
                       \/ j = i
                       \/ j < i /\ log[j].op = "process_thread"
                       \/ j > i /\ log[j].op = "sleep"
              /\ ~(thr # NoThread /\ thr.pos = p)
              /\ i < Len(log) => log[i + 1].op = "sleep" /\ log[i + 1].pos = p

\* A completed walk in which the fetch of a document that has markup and
\* attachments answered with an error, and a later sibling was exported.
C16_Witness ==
    /\ pc = "completed"
    /\ \E i, j \in LogIdx :
          /\ log[i].op = "get_thread" /\ log[i].res = "error"
          /\ HasFallback(RemoteThreads(hier)[IdAt(log[i].pos)])
          /\ Get(RemoteThreads(hier)[IdAt(log[i].pos)], "blobs", <<>>) # <<>>
          /\ Count("sleep", log[i].pos) = 1
          /\ j > i
          /\ log[j].op \in {"write_docx", "write_html"} /\ log[j].res = "ok"
          /\ log[j].pos \in LaterSiblings(log[i].pos)

(***************************************************************************)
(* C17.  Whatever is written is written into a directory that exists: a    *)
(* folder whose loop takes its children has its directory on disk, a       *)
(* document about to write its export file has the directory it writes     *)
(* into, and a document that requests or writes an attachment has its      *)
(* attachments directory; an attachments directory is made only for a      *)
(* document that lists attachments.                                        *)
(***************************************************************************)
C17_DirectoryBeforeUse ==
    /\ \A n \in 1..Len(stack) :
          stack[n].pc \in {"loop", "call", "sleep"} =>
             Norm(stack[n].current_path) \in dirs
    /\ thr.pc \in {"write_docx", "write_html"} =>
          Norm(thr.current_path) \in dirs
    /\ thr.pc \in {"blob_get", "blob_write"} =>
          /\ Norm(attachments_path(thr)) \in dirs
          /\ Get(thr.thread_data, "blobs", <<>>) # <<>>
    /\ \A i \in LogIdx :
          (log[i].op = "mkdir" /\ log[i].pos \in ThreadPlaces) =>
             Get(RemoteThreads(hier)[IdAt(log[i].pos)], "blobs", <<>>) # <<>>

(***************************************************************************)
(* C18.  A child entry with neither thread_id nor folder_id is passed      *)
(* over: nothing is fetched, created or written for it, the loop pauses    *)
(* and goes on, and in a completed walk every document or folder that      *)
(* follows it has been dispatched.  A folder whose metadata has no         *)
(* children key has no children: nothing happens below it and it returns   *)
(* to the pause of its caller.                                             *)
(***************************************************************************)
Unrecognized(p, k) == ~Dispatchable(ChildrenAt(p)[k])

NoChildrenKey(p) == "children" \notin DOMAIN RemoteFolders(hier)[IdAt(p)]

C18_UnrecognizedIsSkipped ==
    \A p \in FolderPlaces :
       /\ \A k \in 1..NumChildren(p) :
             Unrecognized(p, k) =>
                LET c == Append(p, k)
                IN  /\ \A j \in LogIdx :
                          /\ log[j].pos = c => log[j].op = "sleep"
                          /\ ~Below(c, log[j].pos)
                    /\ (pc = "completed" /\ ReachedLoop(p)) =>
                          /\ Count("sleep", c) = 1
                          /\ \A q \in LaterSiblings(c) : Dispatched(q)
       /\ (NoChildrenKey(p) /\ ReachedLoop(p)) =>
             /\ \A j \in LogIdx : ~Below(p, log[j].pos)
             /\ \A n \in 1..Len(stack) :
                   stack[n].pos = p => stack[n].pc \in {"get_folder", "mkdir", "loop"}
             /\ (pc = "completed" /\ p # <<>>) => Count("sleep", p) = 1

\* A completed walk that passed over an entry of neither kind, fetched the
\* folder after it, which has no children key, and paused after both.
C18_Witness ==
    /\ pc = "completed"
    /\ \E p \in FolderPlaces : \E k \in 1..NumChildren(p) :
          /\ Unrecognized(p, k)
          /\ Count("sleep", Append(p, k)) = 1
          /\ \E q \in LaterSiblings(Append(p, k)) :
                /\ q \in FolderPlaces
                /\ NoChildrenKey(q) /\ ReachedLoop(q)
                /\ Count("sleep", q) = 1
                /\ Norm(FolderPathAt(q)) \in dirs

(***************************************************************************)
(* C19.  As claimed: no child is dispatched more than once per reference;  *)
(* over a store without cycle a walk that is not interrupted comes to its  *)
(* end whatever fails; over a store where a folder refers to a folder      *)
(* above it the walk never comes to its end (stated for the walks in which *)
(* no call of the remote side or of the disk failed, so that the walk does *)
(* follow the reference).                                                  *)
(***************************************************************************)
WalkOver == pc \in {"completed", "interrupted"}

OncePerReference ==
    \A i, j \in LogIdx :
       (/\ log[i].op \in Dispatches /\ log[j].op \in Dispatches
        /\ log[i].pos = log[j].pos) => i = j

C19_CycleNeverEnds ==
    /\ []OncePerReference
    /\ (hier # "cycle" /\ pc = "walk") ~> WalkOver
    /\ []((hier = "cycle" /\ FaultCount = 0) => pc # "completed")

(***************************************************************************)
(* C19, amended.  No child is dispatched more than once per reference, and *)
(* every walk that is not interrupted comes to its end, whatever fails and *)
(* whether or not the store has a cycle.  There is no cycle detection: a   *)
(* folder that refers to a folder above it is walked again on every        *)
(* reference, one level deeper each time, its directory made inside its    *)
(* own and its documents exported again there.  This ends where the        *)
(* interpreter lets the recursion go no deeper: the error raised there is  *)
(* contained by process_folder like any other, the calls return one by     *)
(* one, and the session ends as completed.                                 *)
(***************************************************************************)
\* No call failed but the fetch that the recursion limit refused.
NothingFailedBelowLimit ==
    \A i \in LogIdx :
       log[i].res # "ok" => (log[i].op = "get_folder" /\ TooDeep(Len(log[i].pos)))

\* Over "cycle", the folder is walked at every depth short of the limit.
RewalkedToTheLimit ==
    (hier = "cycle" /\ pc = "completed" /\ NothingFailedBelowLimit) =>
       \A p \in FolderPlaces :
          /\ IdAt(p) = "R"
          /\ Len(p) < MaxDepth =>
                /\ Result("get_folder", p) = "ok"
                /\ Norm(FolderPathAt(p)) \in dirs
                /\ Append(p, 2) \in FolderPlaces
          /\ Len(p) >= MaxDepth => Result("get_folder", p) = "raise"

C19_WalkEnds ==
    /\ [](OncePerReference /\ RewalkedToTheLimit)
    /\ (pc = "walk") ~> WalkOver

\* Over "cycle": the walk is completed, the folder was fetched at the root
\* and at two places below itself, and the fetch one level deeper raised.
C19_Witness ==
    /\ hier = "cycle" /\ pc = "completed"
    /\ \E p \in FolderPlaces :
          /\ Len(p) >= 2
          /\ \A n \in 0..Len(p) : Result("get_folder", SubSeq(p, 1, n)) = "ok"
          /\ Result("get_folder", Append(p, 2)) = "raise"
          /\ Norm(FolderPathAt(p)) \in dirs
          /\ Append(Norm(FolderPathAt(p)), <<"d">> \o DocxExt) \in DOMAIN files

(***************************************************************************)
(* C20.  As claimed: the session never ends as failed, and a run that got  *)
(* an id from the link and was not interrupted ends as completed.          *)
(***************************************************************************)
Ended == pc \in {"completed", "interrupted", "failed", "exit1", "uncaught"}

\* os.makedirs raised for the output root (line 235).
RootDirFailed ==
    /\ FsSite("mkdir", <<OutputName>>) \in DOMAIN oracle
    /\ oracle[FsSite("mkdir", <<OutputName>>)] = "raise"

\* The run ended by a KeyboardInterrupt: in the traversal, or before it
\* (where nothing catches it).
WasInterrupted == interrupted \/ (pc = "uncaught" /\ ~RootDirFailed)

C20_PastResolutionEndsCompleted ==
    /\ pc # "failed"
    /\ (Ended /\ folder_id # <<>> /\ ~WasInterrupted) => pc = "completed"

(***************************************************************************)
(* C20, amended.  The session never ends as failed: process_folder         *)
(* contains every error but the interrupt.  A run that has created or      *)
(* found its output root and is not interrupted ends as completed, also    *)
(* when the fetch of the root folder fails and the output root is all      *)
(* there is on disk.  The output root is created outside the try of main:  *)
(* when that creation raises, the run ends with the exception uncaught,    *)
(* status 1, neither completed nor failed, before any fetch.               *)
(***************************************************************************)
C20_FailedIsUnreachable ==
    /\ pc # "failed"
    /\ (Ended /\ folder_id # <<>> /\ ~WasInterrupted /\ ~RootDirFailed) =>
          pc = "completed"
    /\ pc = "exit1" => folder_id = <<>>
    /\ pc = "interrupted" => interrupted
    /\ pc = "uncaught" => (stack = <<>> /\ log = <<>> /\ ExitStatus(pc) = 1)
    /\ RootDirFailed =>
          /\ pc = "uncaught" /\ folder_id # <<>>
          /\ ~Exists(dirs, files, <<OutputName>>)
    /\ (pc = "completed" /\ runs = 1 /\ Result("get_folder", <<>>) # "ok") =>
          /\ dirs = {<<>>, <<OutputName>>} /\ files = <<>>
          /\ ExitStatus(pc) = 0

\* The session has ended as completed although the fetch of the root
\* folder raised; the output root is all there is.
C20_Witness ==
    /\ pc = "completed" /\ runs = 1
    /\ Result("get_folder", <<>>) = "raise"
    /\ dirs = {<<>>, <<OutputName>>} /\ files = <<>>

=============================================================================
